---- MODULE Spec2Model ----
(***************************************************************************)
(* Model of the exploratory-data-analysis helpers of src/functions:        *)
(* count_outliers, categorize_col, analyze_thresholds, chi_squared_test    *)
(* and correlation_analysis, each called on one tabular dataset df.        *)
(*                                                                         *)
(* A dataset is a function from column names to equally long sequences of  *)
(* integers (no missing values).  Floating-point results are kept exact as *)
(* scaled integers: quartiles in quarters, outlier bounds in eighths,      *)
(* thresholds of categorize_col in halves, cluster centers in units of     *)
(* 1/CenterScale.                                                          *)
(***************************************************************************)
EXTENDS Integers, Sequences, FiniteSets, TLC

VARIABLES df, df0, op, args, ret

vars == <<df, df0, op, args, ret>>

\* ---------------------------------------------------------------- bounds
\* Largest number of rows of a dataset of the general specification.
MaxRows == 2
\* Largest cell value of a generated numeric column (values are 0..MaxVal).
MaxVal == 2
\* Largest number of rows of a dataset given to count_outliers alone.
MaxOutlierRows == 5
\* Largest number of thresholds given to categorize_col.
MaxThresholds == 2
\* Largest number of rows of a dataset given to categorize_col alone.
MaxCutRows == 3

\* ---------------------------------------------------------------- helpers
Range(s) == {s[i] : i \in 1..Len(s)}

NRows(d) == IF DOMAIN d = {} THEN 0 ELSE Len(d[CHOOSE c \in DOMAIN d : TRUE])

RECURSIVE SumSeq(_)
SumSeq(s) == IF s = <<>> THEN 0 ELSE Head(s) + SumSeq(Tail(s))

\* The sequences over S of length exactly n, and of length at most n.
SeqsOfLen(S, n) == [1..n -> S]
SeqsUpTo(S, n) == UNION {SeqsOfLen(S, k) : k \in 0..n}

\* A column name that no generated dataset holds.
AbsentColumn == "Fare"

\* A float that is either NaN or a number, the number held in some fixed unit.
NaN == [nan |-> TRUE, num |-> 0]
Num(x) == [nan |-> FALSE, num |-> x]
\* IEEE comparison: every comparison with NaN is false.
FloatLess(a, b) == ~a.nan /\ ~b.nan /\ a.num < b.num

\* What a call that raised leaves behind: no return value.
Raised(kind) == [status |-> kind]

\* ---------------------------------------------------------------- count_outliers
\* Series.quantile(q) with q = q4/4, default linear interpolation; the result
\* is in quarters.  An empty column has quantile NaN.
quantile(col, q4) ==
    LET s == SortSeq(col, LAMBDA a, b : a < b)
        n == Len(s)
        pos4 == q4 * (n - 1)
        lo == pos4 \div 4
        frac4 == pos4 % 4
        hi == IF frac4 = 0 THEN lo ELSE lo + 1
    IN  IF n = 0 THEN NaN
        ELSE Num(4 * s[lo + 1] + frac4 * (s[hi + 1] - s[lo + 1]))

\* Q1 - 1.5 * IQR and Q3 + 1.5 * IQR, in eighths.
lower_bound(Q1, Q3) ==
    IF Q1.nan \/ Q3.nan THEN NaN ELSE Num(2 * Q1.num - 3 * (Q3.num - Q1.num))

upper_bound(Q1, Q3) ==
    IF Q1.nan \/ Q3.nan THEN NaN ELSE Num(2 * Q3.num + 3 * (Q3.num - Q1.num))

\* (df[column] < lower_bound) | (df[column] > upper_bound), row by row.
IsOutlierLax(v, lower, upper) ==
    ~(FloatLess(lower, Num(8 * v)) /\ FloatLess(Num(8 * v), upper))

IsOutlier(v, lower, upper) ==
    FloatLess(Num(8 * v), lower) \/ FloatLess(upper, Num(8 * v))

count_outliers(d, column) ==
    IF column \notin DOMAIN d THEN Raised("KeyError")
    ELSE LET Q1 == quantile(d[column], 1)
             Q3 == quantile(d[column], 3)
             lower == lower_bound(Q1, Q3)
             upper == upper_bound(Q1, Q3)
         IN  [status |-> "ok",
              outlier_count |->
                  Cardinality({i \in 1..Len(d[column]) :
                                   IsOutlier(d[column][i], lower, upper)}),
              lower_bound |-> lower,
              upper_bound |-> upper]

CountOutliers ==
    \E column \in DOMAIN df \cup {AbsentColumn} :
        /\ op' = "count_outliers"
        /\ args' = [column |-> column]
        /\ ret' = count_outliers(df, column)
        /\ UNCHANGED <<df, df0>>

\* The scenario of the specification: Age = [5, 6, 7, 8, 100].
ExampleAges == <<5, 6, 7, 8, 100>>

InitOutliers ==
    /\ df \in {[Age |-> s] : s \in SeqsUpTo(0..MaxVal, MaxOutlierRows) \cup {ExampleAges}}
    /\ df0 = df
    /\ op = "init"
    /\ args = <<>>
    /\ ret = <<>>

SpecOutliers == InitOutliers /\ [][CountOutliers]_vars

\* ---------------------------------------------------------------- C1
\* The k-th smallest value of a column (k = 1..Len), by counting.
OrderStat(col, k) ==
    CHOOSE v \in Range(col) :
        /\ Cardinality({i \in 1..Len(col) : col[i] < v}) < k
        /\ k <= Cardinality({i \in 1..Len(col) : col[i] <= v})

\* The q4-th quartile in quarters, interpolated between the two order
\* statistics around position q4 * (n - 1) / 4.
Quartile4(col, q4) ==
    LET n == Len(col)
        j == (q4 * (n - 1)) \div 4
        r == (q4 * (n - 1)) % 4
    IN  (4 - r) * OrderStat(col, j + 1)
            + r * OrderStat(col, IF j + 2 <= n THEN j + 2 ELSE n)

\* C1: count_outliers takes Q1 and Q3 as the linearly interpolated 25th and
\* 75th percentiles, lower = Q1 - 1.5*(Q3-Q1), upper = Q3 + 1.5*(Q3-Q1), and
\* counts exactly the rows strictly below lower or strictly above upper;
\* Age = [5, 6, 7, 8, 100] gives lower 3, upper 11 and count 1.
C1_OutlierCount ==
    (op = "count_outliers" /\ args.column \in DOMAIN df) =>
      /\ ret.status = "ok"
      /\ Len(df[args.column]) = 0 => ret.outlier_count = 0
      /\ Len(df[args.column]) > 0 =>
        LET col == df[args.column]
            q1 == Quartile4(col, 1)
            q3 == Quartile4(col, 3)
            lower8 == 2 * q1 - 3 * (q3 - q1)
            upper8 == 2 * q3 + 3 * (q3 - q1)
        IN  /\ ret.lower_bound = Num(lower8)
            /\ ret.upper_bound = Num(upper8)
            /\ ret.outlier_count =
                   Cardinality({i \in 1..Len(col) :
                                    8 * col[i] < lower8 \/ 8 * col[i] > upper8})
            /\ col = ExampleAges =>
                   /\ ret.lower_bound = Num(8 * 3)
                   /\ ret.upper_bound = Num(8 * 11)
                   /\ ret.outlier_count = 1

\* A call on a column that has a value equal to a bound and a value outside.
C1_Witness ==
    /\ op = "count_outliers"
    /\ ret.status = "ok"
    /\ ret.outlier_count > 0
    /\ \E i \in 1..Len(df[args.column]) :
           Num(8 * df[args.column][i]) \in {ret.lower_bound, ret.upper_bound}

\* ---------------------------------------------------------------- categorize_col
\* A bin edge: -inf (inf = -1), +inf (inf = 1) or a number in halves (inf = 0).
NegInf == [inf |-> -1, h |-> 0]
PosInf == [inf |-> 1, h |-> 0]
Edge(h) == [inf |-> 0, h |-> h]

EdgeLess(a, b) ==
    \/ a.inf < b.inf
    \/ a.inf = 0 /\ b.inf = 0 /\ a.h < b.h

\* thresholds.tolist(): an int64 array gives Python ints, a float64 array floats.
\* [-np.inf] + thresholds.tolist() + [np.inf]
bins(thresholds) ==
    <<NegInf>> \o [i \in 1..Len(thresholds.vals) |-> Edge(thresholds.vals[i])] \o <<PosInf>>

\* str() of a bin edge inside the f-string: ints print their digits, floats
\* print at least one decimal, the infinities print as -inf and inf.
EdgeStr(dtype, e) ==
    IF e.inf = -1 THEN "-inf"
    ELSE IF e.inf = 1 THEN "inf"
    ELSE IF dtype = "int64" THEN ToString(e.h \div 2)
    ELSE ToString(e.h \div 2) \o "." \o (IF e.h % 2 = 0 THEN "0" ELSE "5")

\* labels = [f"{bins[i]}-{bins[i+1]}" for i in range(len(bins)-1)]
labels(thresholds) ==
    LET b == bins(thresholds)
    IN  [i \in 1..(Len(b) - 1) |->
             EdgeStr(thresholds.dtype, b[i]) \o "-" \o EdgeStr(thresholds.dtype, b[i + 1])]

\* bins.searchsorted(x, side): the number of edges <= x (side "right", used by
\* pd.cut for right=False) or < x (side "left", used for right=True).
searchsorted_left(b, x) ==
    Cardinality({j \in 1..Len(b) : EdgeLess(b[j], Edge(2 * x))})

searchsorted(b, x) ==
    Cardinality({j \in 1..Len(b) : ~EdgeLess(Edge(2 * x), b[j])})

\* pd.cut(df[col], bins=bins, labels=labels, right=False)
cut(col, b, lab) ==
    IF \E j \in 1..(Len(b) - 1) : EdgeLess(b[j + 1], b[j])
    THEN Raised("ValueError: bins must increase monotonically")
    ELSE IF Cardinality(Range(b)) < Len(b) /\ Len(b) # 2
    THEN Raised("ValueError: Bin edges must be unique")
    ELSE IF Cardinality(Range(lab)) # Len(lab)
    THEN Raised("ValueError: labels must be unique")
    ELSE [status |-> "ok",
          categories |-> lab,
          values |-> [i \in 1..Len(col) |->
                         LET ids == searchsorted(b, col[i])
                         IN  IF ids = 0 \/ ids = Len(b) THEN "NaN" ELSE lab[ids]]]

categorize_col(d, col, thresholds) ==
    IF col \notin DOMAIN d THEN Raised("KeyError")
    ELSE cut(d[col], bins(thresholds), labels(thresholds))

\* The threshold arrays handed to categorize_col: any order, repeats allowed.
ThresholdArrays ==
    {[dtype |-> "float64", vals |-> v] : v \in SeqsUpTo(0..(2 * MaxVal + 1), MaxThresholds)}
        \cup {[dtype |-> "int64", vals |-> [i \in DOMAIN v |-> 2 * v[i]]] :
                 v \in SeqsUpTo(0..MaxVal, MaxThresholds) \cup {<<10, 20>>}}

categorize_col_call(col, thresholds) ==
    /\ op' = "categorize_col"
    /\ args' = [col |-> col, thresholds |-> thresholds]
    /\ ret' = categorize_col(df, col, thresholds)
    /\ UNCHANGED <<df, df0>>

\* categorize_col alone, as a function of its inputs: the dataset and the
\* arguments of the call are drawn at the start, the call applies the function.
CategorizeCol == categorize_col_call(args.col, args.thresholds)

InitCategorize ==
    /\ df \in {[Age |-> s] : s \in SeqsUpTo(0..MaxVal, MaxCutRows) \cup {<<15, 25>>}}
    /\ df0 = df
    /\ op = "init"
    /\ args \in {[col |-> "Age", thresholds |-> th] : th \in ThresholdArrays}
    /\ ret = <<>>

SpecCategorize == InitCategorize /\ [][CategorizeCol]_vars

\* ---------------------------------------------------------------- C2, C3
Ascending(v) == \A i \in 1..(Len(v) - 1) : v[i] <= v[i + 1]
StrictlyAscending(v) == \A i \in 1..(Len(v) - 1) : v[i] < v[i + 1]

\* The bin of value x among thresholds v (halves): its left edge is the
\* greatest threshold <= x (else -inf), its right edge the least threshold > x
\* (else +inf).
LeftEdge(v, x) ==
    IF \E i \in 1..Len(v) : v[i] <= 2 * x
    THEN Edge(CHOOSE t \in Range(v) :
                  t <= 2 * x /\ \A u \in Range(v) : u <= 2 * x => u <= t)
    ELSE NegInf

RightEdge(v, x) ==
    IF \E i \in 1..Len(v) : v[i] > 2 * x
    THEN Edge(CHOOSE t \in Range(v) :
                  t > 2 * x /\ \A u \in Range(v) : u > 2 * x => t <= u)
    ELSE PosInf

\* C2: with thresholds in (strictly) ascending order every row gets the label
\* '{left}-{right}' of the half-open bin [left, right) that holds its value:
\* below t0 the first bin, equal to ti the bin starting at ti, at or above the
\* last threshold the last bin; thresholds [10, 20]: 15 -> '10-20', 25 -> '20-inf'.
C2_BinLabel ==
    (/\ op = "categorize_col"
     /\ args.col \in DOMAIN df
     /\ StrictlyAscending(args.thresholds.vals)) =>
        LET th == args.thresholds
            col == df[args.col]
        IN  /\ ret.status = "ok"
            /\ Len(ret.values) = Len(col)
            /\ \A i \in 1..Len(col) :
                   ret.values[i] =
                       EdgeStr(th.dtype, LeftEdge(th.vals, col[i])) \o "-"
                           \o EdgeStr(th.dtype, RightEdge(th.vals, col[i]))
            /\ (th = [dtype |-> "int64", vals |-> <<20, 40>>] /\ col = <<15, 25>>) =>
                   ret.values = <<"10-20", "20-inf">>

\* A call whose column has a value equal to a threshold, one below the first
\* threshold and one at or above the last.
C2_Witness ==
    /\ op = "categorize_col"
    /\ args.col \in DOMAIN df
    /\ ret.status = "ok"
    /\ Len(args.thresholds.vals) = 2
    /\ \E i, j, k \in 1..Len(df[args.col]) :
           /\ 2 * df[args.col][i] = args.thresholds.vals[1]
           /\ 2 * df[args.col][j] < args.thresholds.vals[1]
           /\ 2 * df[args.col][k] >= args.thresholds.vals[2]

\* C3 (as claimed): for every ascending threshold sequence, repeated values
\* included, the call completes and every row gets exactly one label.
C3_TotalAssignment ==
    (/\ op = "categorize_col"
     /\ args.col \in DOMAIN df
     /\ Ascending(args.thresholds.vals)) =>
        /\ ret.status = "ok"
        /\ Len(ret.values) = Len(df[args.col])
        /\ \A i \in 1..Len(ret.values) : ret.values[i] \in Range(ret.categories)

\* ---------------------------------------------------------------- datasets
\* The datasets of the general specification: up to MaxRows rows, a numeric
\* column Age, optionally a 0/1 target Survived, optionally a column that is
\* already named Group (its cells hold MaxRows, which is no cluster index).
Datasets ==
    UNION {
        {[c \in {"Age"} \cup (IF hasTarget THEN {"Survived"} ELSE {})
                        \cup (IF hasGroup THEN {"Group"} ELSE {}) |->
              IF c = "Age" THEN age
              ELSE IF c = "Survived" THEN survived
              ELSE [i \in 1..n |-> MaxRows]] :
            age \in SeqsOfLen(0..MaxVal, n),
            survived \in SeqsOfLen(0..1, n),
            hasTarget \in BOOLEAN,
            hasGroup \in BOOLEAN} :
        n \in 0..MaxRows}

\* ---------------------------------------------------------------- chi_squared_test
\* LabelEncoder.fit: classes_ is the sorted array of the distinct values.
RECURSIVE SortedSeqOf(_)
SortedSeqOf(S) ==
    IF S = {} THEN <<>>
    ELSE LET m == CHOOSE x \in S : \A y \in S : x <= y
         IN  <<m>> \o SortedSeqOf(S \ {m})

\* The distinct values in order of first appearance.
RECURSIVE FirstSeenSeqOf(_)
FirstSeenSeqOf(col) ==
    IF col = <<>> THEN <<>>
    ELSE LET rest == FirstSeenSeqOf(SubSeq(col, 1, Len(col) - 1))
         IN  IF col[Len(col)] \in Range(rest) THEN rest
             ELSE Append(rest, col[Len(col)])

classes_first_seen(col) == FirstSeenSeqOf(col)

classes_(col) == SortedSeqOf(Range(col))

\* LabelEncoder.fit_transform: each value becomes its index in classes_.
fit_transform(col) ==
    LET classes == classes_(col)
    IN  [i \in 1..Len(col) |->
             (CHOOSE j \in 1..Len(classes) : classes[j] = col[i]) - 1]

\* sklearn.feature_selection.chi2 for one encoded feature x against the encoded
\* target y: observed[c] = sum of x over the rows of class c, expected[c] =
\* class_prob[c] * feature_count.  The statistic sum((obs - exp)^2 / exp) is
\* kept as the fraction chisq_num / chisq_den; it is NaN (0/0) when the feature
\* sums to 0 or when the target has one class only (the second, complementary
\* class is empty).  The p-value is chdtrc(dof, statistic).
chi2(x, y) ==
    LET n == Len(x)
        Y == Range(y)
        rows(c) == {i \in 1..n : y[i] = c}
        observed(c) == SumSeq([i \in 1..n |-> IF y[i] = c THEN x[i] ELSE 0])
        feature_count == SumSeq(x)
        dev2(c) == (n * observed(c) - Cardinality(rows(c)) * feature_count)
                       * (n * observed(c) - Cardinality(rows(c)) * feature_count)
        cs == SortedSeqOf(Y)
        \* sum over classes of dev2(c) / (n * n_c * feature_count), over the
        \* common denominator n * feature_count * prod(n_c).
        RECURSIVE Prod(_)
        Prod(S) == IF S = {} THEN 1
                   ELSE LET c == CHOOSE c \in S : TRUE
                        IN  Cardinality(rows(c)) * Prod(S \ {c})
    IN  IF feature_count = 0 \/ Cardinality(Y) < 2
        THEN [nan |-> TRUE, chisq_num |-> 0, chisq_den |-> 0,
              dof |-> IF Cardinality(Y) < 2 THEN 1 ELSE Cardinality(Y) - 1]
        ELSE [nan |-> FALSE,
              chisq_num |-> SumSeq([k \in 1..Len(cs) |-> dev2(cs[k]) * Prod(Y \ {cs[k]})]),
              chisq_den |-> n * feature_count * Prod(Y),
              dof |-> Cardinality(Y) - 1]

\* chi_squared_test without the drop of the target column.
chi_squared_test_keeps_target(d, target_variable) ==
    LET df_transform == [c \in DOMAIN d |-> fit_transform(d[c])]
    IN  IF target_variable \notin DOMAIN d THEN Raised("KeyError")
        ELSE IF NRows(d) = 0 THEN Raised("ValueError: 0 samples")
        ELSE [status |-> "ok",
              df_transform |-> df_transform,
              p_values |-> [c \in DOMAIN d |->
                               chi2(df_transform[c], df_transform[target_variable])]]

\* The two definitions of chi_squared_test (statistical.py, inferencia.py) are
\* the same text; each imports what it uses.
chi_squared_test(d, target_variable) ==
    LET df_transform == [c \in DOMAIN d |-> fit_transform(d[c])]
        features == DOMAIN d \ {target_variable}
    IN  IF target_variable \notin DOMAIN d THEN Raised("KeyError")
        ELSE IF NRows(d) = 0 THEN Raised("ValueError: 0 samples")
        ELSE IF features = {} THEN Raised("ValueError: 0 features")
        ELSE [status |-> "ok",
              df_transform |-> df_transform,
              p_values |-> [c \in features |->
                               chi2(df_transform[c], df_transform[target_variable])]]

ChiSquaredModules == {"statistical", "inferencia"}

ChiSquaredTest ==
    \E module \in ChiSquaredModules, target_variable \in DOMAIN df \cup {AbsentColumn} :
        /\ op' = "chi_squared_test"
        /\ args' = [module |-> module, target_variable |-> target_variable]
        /\ ret' = chi_squared_test(df, target_variable)
        /\ UNCHANGED <<df, df0>>

InitDatasets ==
    /\ df \in Datasets
    /\ df0 = df
    /\ op = "init"
    /\ args = <<>>
    /\ ret = <<>>

SpecChiSquared == InitDatasets /\ [][ChiSquaredTest]_vars

\* ---------------------------------------------------------------- C8, C9
\* Position of the first row of col holding v.
FirstIndex(col, v) == CHOOSE i \in 1..Len(col) : col[i] = v /\ \A j \in 1..(i - 1) : col[j] # v

\* C8 (as claimed): every column is encoded to the codes 0..n-1 with the code
\* of a value being its rank in first-seen order within the column.
C8_FirstSeenCodes ==
    (op = "chi_squared_test" /\ ret.status = "ok") =>
        \A c \in DOMAIN df : \A i \in 1..Len(df[c]) :
            ret.df_transform[c][i] =
                Cardinality({v \in Range(df[c]) : FirstIndex(df[c], v) < FirstIndex(df[c], df[c][i])})

\* C8 (amended): every column, the target included, is encoded independently
\* to the contiguous codes 0..n-1, the code of a value being its rank among
\* the column's distinct values in ascending (sorted) order.
C8_SortedCodes ==
    (op = "chi_squared_test" /\ ret.status = "ok") =>
        \A c \in DOMAIN df :
            /\ Range(ret.df_transform[c]) = 0..(Cardinality(Range(df[c])) - 1)
            /\ \A i \in 1..Len(df[c]) :
                   ret.df_transform[c][i] =
                       Cardinality({v \in Range(df[c]) : v < df[c][i]})

\* A call on a dataset with a column whose first-seen order is not its sorted
\* order.
C8_Witness ==
    /\ op = "chi_squared_test"
    /\ ret.status = "ok"
    /\ \E c \in DOMAIN df : \E i, j \in 1..Len(df[c]) : i < j /\ df[c][i] > df[c][j]

HasDegenerateColumn(d) == \E c \in DOMAIN d : Cardinality(Range(d[c])) < 2

\* C9 (as claimed): the call fails when the target column is absent or when
\* any column has fewer than 2 distinct values, and otherwise returns a
\* mapping keyed by exactly the non-target columns.
C9_FailsOnDegenerate ==
    op = "chi_squared_test" =>
        IF args.target_variable \notin DOMAIN df \/ HasDegenerateColumn(df)
        THEN ret.status # "ok"
        ELSE ret.status = "ok" /\ DOMAIN ret.p_values = DOMAIN df \ {args.target_variable}

\* C9 (amended): the call fails when the target column is absent (or the
\* dataset has no rows or no column besides the target); otherwise it returns
\* a mapping keyed by exactly the non-target columns, also when a column has
\* fewer than 2 distinct values: a constant feature, or any feature against a
\* constant target, gets a NaN p-value instead of an error.
C9_FailsOnAbsentTarget ==
    op = "chi_squared_test" =>
        IF \/ args.target_variable \notin DOMAIN df
           \/ NRows(df) = 0
           \/ DOMAIN df = {args.target_variable}
        THEN ret.status # "ok"
        ELSE /\ ret.status = "ok"
             /\ DOMAIN ret.p_values = DOMAIN df \ {args.target_variable}
             /\ \A c \in DOMAIN ret.p_values :
                    (Cardinality(Range(df[c])) < 2
                         \/ Cardinality(Range(df[args.target_variable])) < 2)
                        => ret.p_values[c].nan

\* A call that returns although a column of the dataset is constant.
C9_Witness ==
    /\ op = "chi_squared_test"
    /\ ret.status = "ok"
    /\ HasDegenerateColumn(df)
    /\ \E c \in DOMAIN ret.p_values : ~ret.p_values[c].nan

\* ---------------------------------------------------------------- analyze_thresholds
\* Cluster centers are means of at most MaxRows cells: they are kept as
\* integers in units of 1/CenterScale, CenterScale = MaxRows!.
RECURSIVE Factorial(_)
Factorial(n) == IF n <= 1 THEN 1 ELSE n * Factorial(n - 1)

CenterScale == Factorial(MaxRows)

Abs(x) == IF x < 0 THEN -x ELSE x

\* What KMeans(n_clusters=k, random_state=0).fit_predict(X) raises before it
\* fits anything, "" when it goes on to fit: the parameter check (n_clusters
\* is an int >= 1), the input check (at least one sample) and the check of the
\* parameters against the input (n_samples >= n_clusters).  Fewer distinct
\* values than clusters is a ConvergenceWarning only.
KMeansRejectsFewDistinct(X, k) ==
    IF k < 1 THEN "InvalidParameterError"
    ELSE IF Len(X) = 0 THEN "ValueError: 0 samples"
    ELSE IF Cardinality(Range(X)) < k THEN "ValueError: n_samples < n_clusters"
    ELSE ""

KMeansRejects(X, k) ==
    IF k < 1 THEN "InvalidParameterError"
    ELSE IF Len(X) = 0 THEN "ValueError: 0 samples"
    ELSE IF Len(X) < k THEN "ValueError: n_samples < n_clusters"
    ELSE ""

\* The fits KMeans can converge to on the 1-D column X with k clusters; which
\* one it returns depends on the seeded initialisation, so the model takes any
\* of them.  labels_[i] in 0..k-1 is the index of the center nearest to X[i]
\* (the lowest index on a tie); cluster_centers_[j+1] is the mean of the rows
\* labelled j; a cluster left empty (only when X has fewer distinct values than
\* k) has its center relocated onto a row of X.
KMeansFits(X, k) ==
    LET n == Len(X)
        count(l, j) == Cardinality({i \in 1..n : l[i] = j})
        mean(l, j) ==
            (CenterScale \div count(l, j))
                * SumSeq([i \in 1..n |-> IF l[i] = j THEN X[i] ELSE 0])
        fit(l, e) ==
            [cluster_centers_ |->
                 [j \in 1..k |-> IF count(l, j - 1) = 0 THEN CenterScale * e[j]
                                 ELSE mean(l, j - 1)],
             labels_ |-> l]
        dist(f, i, j) == Abs(CenterScale * X[i] - f.cluster_centers_[j])
        nearest(f, i) ==
            CHOOSE j \in 1..k :
                /\ \A j2 \in 1..k : dist(f, i, j) <= dist(f, i, j2)
                /\ \A j2 \in 1..(j - 1) : dist(f, i, j2) > dist(f, i, j)
        wanted == IF Cardinality(Range(X)) < k THEN Cardinality(Range(X)) ELSE k
        relocations == IF Cardinality(Range(X)) < k THEN [1..k -> Range(X)]
                       ELSE {[j \in 1..k |-> X[1]]}
    IN  {f \in {fit(l, e) : l \in [1..n -> 0..(k - 1)], e \in relocations} :
            /\ Cardinality(Range(f.labels_)) = wanted
            /\ \A i \in 1..n : f.labels_[i] = nearest(f, i) - 1}

\* thresholds = kmeans.cluster_centers_.flatten(); thresholds.sort()
thresholds_unsorted(cluster_centers_) == cluster_centers_

thresholds_sorted(cluster_centers_) == SortSeq(cluster_centers_, LAMBDA a, b : a < b)

\* df.groupby('Group')[target_col].mean().reset_index(): one row per group
\* index present in the Group column, ascending, with the mean of the target
\* over the rows of the group kept as the fraction sum / count.
survival_rates(d, target_col) ==
    LET groups == SortedSeqOf(Range(d["Group"]))
        n == Len(d["Group"])
    IN  [m \in 1..Len(groups) |->
            [Group |-> groups[m],
             sum |-> SumSeq([i \in 1..n |->
                                IF d["Group"][i] = groups[m] THEN d[target_col][i] ELSE 0]),
             count |-> Cardinality({i \in 1..n : d["Group"][i] = groups[m]})]]

\* df['Group'] = labels: adds the column, or replaces a column of that name.
WithGroup(d, group) ==
    [c \in DOMAIN d \cup {"Group"} |-> IF c = "Group" THEN group ELSE d[c]]

\* The value of analyze_thresholds once the Group column is assigned: the
\* group-by raises on an absent target column, after the assignment.  stdout
\* holds the "Threshold para Grupo {i}" lines; the two matplotlib charts are
\* sinks and are left out.
analyze_result(d, target_col, fit) ==
    IF target_col \notin DOMAIN d THEN Raised("KeyError")
    ELSE LET thresholds == thresholds_sorted(fit.cluster_centers_)
         IN  [status |-> "ok",
              thresholds |-> thresholds,
              survival_rates |-> survival_rates(d, target_col),
              stdout |-> [i \in 1..Len(thresholds) |->
                             [Grupo |-> i - 1, threshold |-> thresholds[i]]]]

analyze_thresholds_call(numeric_col, target_col, n_clusters) ==
    /\ op' = "analyze_thresholds"
    /\ args' = [numeric_col |-> numeric_col, target_col |-> target_col,
                n_clusters |-> n_clusters]
    /\ df0' = df0
    /\ IF numeric_col \notin DOMAIN df
       THEN ret' = Raised("KeyError") /\ df' = df
       ELSE IF KMeansRejects(df[numeric_col], n_clusters) # ""
       THEN /\ ret' = Raised(KMeansRejects(df[numeric_col], n_clusters))
            /\ df' = df
       ELSE \E fit \in KMeansFits(df[numeric_col], n_clusters) :
                /\ df' = WithGroup(df, fit.labels_)
                /\ ret' = analyze_result(df', target_col, fit)

\* The arguments tried: a present and an absent numeric column, the target
\* (present or not in the dataset), and every cluster count from 0 to one more
\* than the largest number of rows.
AnalyzeArgs ==
    [numeric_col : {"Age", AbsentColumn}, target_col : {"Survived"},
     n_clusters : 0..(MaxRows + 1)]

AnalyzeThresholds ==
    \E a \in AnalyzeArgs :
        analyze_thresholds_call(a.numeric_col, a.target_col, a.n_clusters)

\* analyze_thresholds alone: the dataset and the arguments are drawn at the
\* start, and the call is made (and made again on the dataset it leaves).
AnalyzeThresholdsGiven ==
    analyze_thresholds_call(args.numeric_col, args.target_col, args.n_clusters)

InitThresholds ==
    /\ df \in Datasets
    /\ df0 = df
    /\ op = "init"
    /\ args \in AnalyzeArgs
    /\ ret = <<>>

SpecThresholds == InitThresholds /\ [][AnalyzeThresholdsGiven]_vars

\* ---------------------------------------------------------------- C5, C6, C7
\* C5 (as claimed): a call of analyze_thresholds that fails leaves the
\* caller's dataset exactly as it was, with no group column added.
C5_FailureLeavesDataset ==
    [][(op' = "analyze_thresholds" /\ ret'.status # "ok") => df' = df]_vars

\* C6: for every dataset with the two columns and every k from 1 to the number
\* of rows the call returns, and whenever it returns the thresholds are
\* exactly k values in ascending order.
C6_SortedThresholds ==
    op = "analyze_thresholds" =>
        /\ (/\ args.numeric_col \in DOMAIN df
            /\ args.target_col \in DOMAIN df
            /\ 1 <= args.n_clusters
            /\ args.n_clusters <= NRows(df)) => ret.status = "ok"
        /\ ret.status = "ok" =>
               /\ Len(ret.thresholds) = args.n_clusters
               /\ Ascending(ret.thresholds)

\* A returned call in which the cluster with index 0 lies above the cluster
\* with index 1: the centers come out of the fit in descending order.
C6_Witness ==
    /\ op = "analyze_thresholds"
    /\ ret.status = "ok"
    /\ \E i, j \in 1..NRows(df) :
           /\ df["Group"][i] = 0
           /\ df["Group"][j] = 1
           /\ df[args.numeric_col][i] > df[args.numeric_col][j]

\* C7 (as claimed): the call fails, returning no thresholds, whenever k < 1 or
\* k exceeds the number of distinct values of the numeric column.
C7_FailsOnFewDistinct ==
    (/\ op = "analyze_thresholds"
     /\ args.numeric_col \in DOMAIN df
     /\ \/ args.n_clusters < 1
        \/ args.n_clusters > Cardinality(Range(df[args.numeric_col]))) =>
        ret.status # "ok"

\* C7 (amended): the call fails, returning no thresholds, whenever k < 1 or k
\* exceeds the number of rows; when k exceeds the number of distinct values but
\* not the number of rows it returns k thresholds, some of them repeated.
C7_FailsOnFewRows ==
    (op = "analyze_thresholds" /\ args.numeric_col \in DOMAIN df) =>
        LET X == df[args.numeric_col]
            k == args.n_clusters
        IN  /\ (k < 1 \/ k > Len(X)) =>
                   ret.status \in {"InvalidParameterError", "ValueError: 0 samples",
                                   "ValueError: n_samples < n_clusters"}
            /\ (Cardinality(Range(X)) < k /\ k <= Len(X) /\ args.target_col \in DOMAIN df) =>
                   /\ ret.status = "ok"
                   /\ Len(ret.thresholds) = k
                   /\ Cardinality(Range(ret.thresholds)) < k

\* A call with more clusters than distinct values and no more than rows.
C7_Witness ==
    /\ op = "analyze_thresholds"
    /\ args.numeric_col \in DOMAIN df
    /\ args.n_clusters > Cardinality(Range(df[args.numeric_col]))
    /\ args.n_clusters <= NRows(df)
    /\ ret.status = "ok"

\* ---------------------------------------------------------------- correlation_analysis
\* alpha=0.05, the default significance level, in thousandths.
AlphaDefault == 50

\* The modules that define correlation_analysis, and whether the module binds
\* the name stats the function body uses: statistical.py and plot.py import it
\* from scipy, inferencia.py does not.
CorrelationModules == {"statistical", "plot", "inferencia"}

stats_imported(module) == module \in {"statistical", "plot"}

RejectsNull == "Rejeita a hipotese nula: as variaveis nao sao independentes."
KeepsNull == "Nao se rejeita a hipotese nula: as variaveis sao independentes."

\* if p_value < alpha: ... else: ...   (a NaN p-value compares false)
classify(p_value, alpha) ==
    IF FloatLess(p_value, Num(alpha)) THEN RejectsNull ELSE KeepsNull

Sign(x) == IF x < 0 THEN -1 ELSE IF x > 0 THEN 1 ELSE 0

\* The sign of the sample covariance of two equally long columns.
CovSign(x, y) ==
    Sign(Len(x) * SumSeq([i \in 1..Len(x) |-> x[i] * y[i]]) - SumSeq(x) * SumSeq(y))

\* Average ranks (doubled, to stay whole) as scipy.stats.rankdata gives them.
Ranks2(x) ==
    [i \in 1..Len(x) |->
        2 * Cardinality({j \in 1..Len(x) : x[j] < x[i]})
            + Cardinality({j \in 1..Len(x) : x[j] = x[i]}) + 1]

\* stats.pearsonr / stats.spearmanr: the coefficient is kept by its sign; the
\* p-value is the library's and is taken as given (p, in thousandths).  A
\* constant column makes both NaN.
correlation(x, y, p) ==
    IF Cardinality(Range(x)) < 2 \/ Cardinality(Range(y)) < 2
    THEN [coefficient |-> NaN, p_value |-> NaN]
    ELSE [coefficient |-> Num(CovSign(x, y)), p_value |-> Num(p)]

correlation_analysis(module, d, var1, var2, alpha, pearson_p, spearman_p) ==
    IF ~stats_imported(module) THEN Raised("NameError")
    ELSE IF var1 \notin DOMAIN d \/ var2 \notin DOMAIN d THEN Raised("KeyError")
    ELSE IF Len(d[var1]) < 2 THEN Raised("ValueError: length < 2")
    ELSE LET pearson == correlation(d[var1], d[var2], pearson_p)
             spearman == correlation(Ranks2(d[var1]), Ranks2(d[var2]), spearman_p)
         IN  [status |-> "ok",
              results |->
                  [c \in {"Pearson Correlation", "Pearson P-value", "Pearson Test",
                          "Spearman Correlation", "Spearman P-value", "Spearman Test"} |->
                      CASE c = "Pearson Correlation" -> pearson.coefficient
                        [] c = "Pearson P-value" -> pearson.p_value
                        [] c = "Pearson Test" -> classify(pearson.p_value, alpha)
                        [] c = "Spearman Correlation" -> spearman.coefficient
                        [] c = "Spearman P-value" -> spearman.p_value
                        [] c = "Spearman Test" -> classify(spearman.p_value, alpha)]]

\* The p-values tried for a level alpha: just below it, equal to it, just above.
PValuesAround(alpha) == {alpha - 1, alpha, alpha + 1}

CorrelationAnalysisWith(alphas) ==
    \E module \in CorrelationModules, var2 \in {"Survived", "Age"}, alpha \in alphas :
        \E pearson_p \in PValuesAround(alpha), spearman_p \in PValuesAround(alpha) :
            /\ op' = "correlation_analysis"
            /\ args' = [module |-> module, var1 |-> "Age", var2 |-> var2, alpha |-> alpha,
                        pearson_p |-> pearson_p, spearman_p |-> spearman_p]
            /\ ret' = correlation_analysis(module, df, "Age", var2, alpha,
                                           pearson_p, spearman_p)
            /\ UNCHANGED <<df, df0>>

CorrelationAnalysis == CorrelationAnalysisWith({AlphaDefault, 2 * AlphaDefault})

SpecCorrelation == InitDatasets /\ [][CorrelationAnalysis]_vars

\* ---------------------------------------------------------------- all operations
\* Any sequence of calls on one dataset.  categorize_col and
\* correlation_analysis take a few fixed inputs here; SpecCategorize and
\* SpecCorrelation range over the full input sets.
FewThresholdArrays ==
    {[dtype |-> "float64", vals |-> <<>>],
     [dtype |-> "int64", vals |-> <<2>>],
     [dtype |-> "float64", vals |-> <<1, 3>>],
     [dtype |-> "float64", vals |-> <<2, 2>>]}

CategorizeColFew ==
    \E col \in DOMAIN df \cup {AbsentColumn}, thresholds \in FewThresholdArrays :
        categorize_col_call(col, thresholds)

CorrelationAnalysisDefault == CorrelationAnalysisWith({AlphaDefault})

Init == InitDatasets

Next ==
    \/ CountOutliers
    \/ CategorizeColFew
    \/ ChiSquaredTest
    \/ CorrelationAnalysisDefault
    \/ AnalyzeThresholds

Spec == Init /\ [][Next]_vars

\* ---------------------------------------------------------------- C4
\* C4 (as claimed): after any sequence of calls every column the dataset had
\* before the calls still holds its original values, a column already named
\* Group included.
C4_ColumnsPreserved ==
    \A c \in DOMAIN df0 : c \in DOMAIN df /\ df[c] = df0[c]

\* ---------------------------------------------------------------- C10
\* C10 (as claimed): every definition of correlation_analysis, called with two
\* present numeric columns of at least two rows, returns a record of six
\* entries in which each test is classified as rejecting independence exactly
\* when its own p-value is strictly below alpha.
C10_SixEntries ==
    (/\ op = "correlation_analysis"
     /\ {args.var1, args.var2} \subseteq DOMAIN df
     /\ NRows(df) >= 2) =>
        /\ ret.status = "ok"
        /\ Cardinality(DOMAIN ret.results) = 6
        /\ \A test \in {"Pearson", "Spearman"} :
               LET p == ret.results[test \o " P-value"]
               IN  ret.results[test \o " Test"] =
                       IF ~p.nan /\ p.num < args.alpha THEN RejectsNull ELSE KeepsNull

\* ---------------------------------------------------------------- C11
\* C11 (as claimed): the threshold reported for group index i, the i-th of the
\* returned sorted thresholds and the value of the line "Threshold para Grupo
\* i", is the center (the mean of the numeric column) of the rows whose Group
\* cell is i, so that entry i of the per-group means and threshold i describe
\* the same group.
C11_ThresholdOfGroup ==
    (op = "analyze_thresholds" /\ ret.status = "ok") =>
        \A m \in 1..Len(ret.survival_rates) :
            LET g == ret.survival_rates[m].Group
                X == df[args.numeric_col]
                members == {i \in 1..Len(X) : df["Group"][i] = g}
            IN  /\ ret.stdout[g + 1].Grupo = g
                /\ ret.stdout[g + 1].threshold = ret.thresholds[g + 1]
                /\ ret.thresholds[g + 1] * Cardinality(members) =
                       CenterScale * SumSeq([i \in 1..Len(X) |->
                                                IF i \in members THEN X[i] ELSE 0])

\* ---------------------------------------------------------------- chart renderers
\* Largest number of columns handed to a chart renderer.
MaxColumns == 2

\* from statistical import count_outliers: the value the call returns, the
\* tuple (outlier_count, lower_bound, upper_bound).
count_outliers_value(d, column) ==
    LET r == count_outliers(d, column)
    IN  <<r.outlier_count, r.lower_bound, r.upper_bound>>

\* plt.subplots(1, len(columns)) raises on no column and gives a single Axes,
\* which zip cannot iterate, for one column; sns.boxplot raises on a column the
\* dataset does not hold.  Otherwise each box plot is titled
\* f'{column} (Outliers: {outlier_count})' with outlier_count bound to the
\* whole value of count_outliers; Outliers holds the values the title shows.
plot_boxplots_with_outliers(d, columns) ==
    IF Len(columns) = 0 THEN Raised("ValueError: no subplot")
    ELSE IF Len(columns) = 1 THEN Raised("TypeError: Axes is not iterable")
    ELSE IF \E i \in 1..Len(columns) : columns[i] \notin DOMAIN d
    THEN Raised("ValueError: column not in data")
    ELSE [status |-> "ok",
          titles |-> [i \in 1..Len(columns) |->
                         [column |-> columns[i],
                          Outliers |-> count_outliers_value(d, columns[i])]],
          fences |-> <<>>]

\* plt.subplots(len(columns), 2) raises on no column and gives a 1-D array,
\* which axes[i, 0] cannot index, for one column.  Otherwise the value of
\* count_outliers is unpacked into outlier_count, lower_bound, upper_bound: the
\* title shows the count, the histogram gets the two dashed fence lines.
plot_boxplots_hist_kde(d, columns) ==
    IF Len(columns) = 0 THEN Raised("ValueError: no subplot")
    ELSE IF Len(columns) = 1 THEN Raised("IndexError: too many indices")
    ELSE IF \E i \in 1..Len(columns) : columns[i] \notin DOMAIN d
    THEN Raised("ValueError: column not in data")
    ELSE [status |-> "ok",
          titles |-> [i \in 1..Len(columns) |->
                         [column |-> columns[i],
                          Outliers |-> <<count_outliers_value(d, columns[i])[1]>>]],
          fences |-> [i \in 1..Len(columns) |->
                         [lower_bound |-> count_outliers_value(d, columns[i])[2],
                          upper_bound |-> count_outliers_value(d, columns[i])[3]]]]

PlotBoxplotsWithOutliers ==
    \E columns \in SeqsUpTo(DOMAIN df \cup {AbsentColumn}, MaxColumns) :
        /\ op' = "plot_boxplots_with_outliers"
        /\ args' = [columns |-> columns]
        /\ ret' = plot_boxplots_with_outliers(df, columns)
        /\ UNCHANGED <<df, df0>>

PlotBoxplotsHistKde ==
    \E columns \in SeqsUpTo(DOMAIN df \cup {AbsentColumn}, MaxColumns) :
        /\ op' = "plot_boxplots_hist_kde"
        /\ args' = [columns |-> columns]
        /\ ret' = plot_boxplots_hist_kde(df, columns)
        /\ UNCHANGED <<df, df0>>

NextPlots == PlotBoxplotsWithOutliers \/ PlotBoxplotsHistKde

\* The renderers are given datasets that have at least one row to draw.
InitPlots ==
    /\ df \in {d \in Datasets : NRows(d) >= 1}
    /\ df0 = df
    /\ op = "init"
    /\ args = <<>>
    /\ ret = <<>>

SpecPlots == InitPlots /\ [][NextPlots]_vars

\* ---------------------------------------------------------------- C12
\* C12 (as claimed): both renderers get from count_outliers a result of the
\* shape they use: plot_boxplots_with_outliers titles each box plot with the
\* column's outlier count as a single number, and plot_boxplots_hist_kde gets
\* the count together with the lower and upper bounds.
C12_RendererShapes ==
    (op \in {"plot_boxplots_with_outliers", "plot_boxplots_hist_kde"}
         /\ ret.status = "ok") =>
        \A i \in 1..Len(args.columns) :
            LET r == count_outliers(df, args.columns[i])
            IN  /\ ret.titles[i].column = args.columns[i]
                /\ Len(ret.titles[i].Outliers) = 1
                /\ ret.titles[i].Outliers[1] = r.outlier_count
                /\ op = "plot_boxplots_hist_kde" =>
                       /\ ret.fences[i].lower_bound = r.lower_bound
                       /\ ret.fences[i].upper_bound = r.upper_bound

====
